---- MODULE Spec2Model ----
(***************************************************************************)
(* Raffle ticket sales (rifa-marlize): the purchase handlers of the        *)
(* repository over one shared MongoDB collection of numbered tickets.      *)
(*                                                                         *)
(* The repository holds six variants of the purchase handler.  A deployment*)
(* runs one of them; `variant` says which.  The ticket documents use       *)
(* different field names per variant; the model keeps one record per       *)
(* ticket with the fields                                                  *)
(*   sold    selected / isSelected / (NOT isAvailable)                     *)
(*   buyer   buyer / purchasedBy       ('' and null are both NoBuyer)     *)
(*   soldAt  purchaseDate / selectedAt (0 is null / absent)                *)
(*                                                                         *)
(* Node runs each handler continuation to completion, so a step of the     *)
(* model is either one store operation executed by MongoDB or the          *)
(* synchronous code between two awaits.  A multi-document updateMany is    *)
(* taken as one step of the store (the most favourable reading of the      *)
(* driver); a findOneAndUpdate touches one document.                       *)
(***************************************************************************)
EXTENDS Integers, Sequences, FiniteSets, TLC

\* ------------------------------------------------------------- bounds
PoolSize == 2      \* tickets 1..PoolSize exist (400 or 100 in the sources)
MaxReq   == 2      \* purchase requests in one behaviour
MaxLen   == 2      \* longest numbers array of a request

\* ------------------------------------------------------------- values
Pool      == 1..PoolSize
Req       == 1..MaxReq
\* numbers a client can name: the pool and one number that is not in it
Nums      == 1..(PoolSize + 1)
Missing   == <<"?undefined">>     \* a string field absent from the body
NoBuyer   == <<>>                 \* '' / null
Blank     == " "
Secret    == <<"s">>              \* the shared secret a deployment configures
Rifa2024  == <<"r">>              \* 'rifa2024', the default of backend/src/database.ts
NoDocs    == <<>>                 \* no query result yet

Variants  == {"numbers", "index", "part000", "apiserver", "database", "part001"}

\* the sequences over S of length 0..n
RECURSIVE SeqsUpTo(_, _)
SeqsUpTo(S, n) ==
  IF n = 0 THEN {<<>>}
  ELSE LET shorter == SeqsUpTo(S, n - 1)
       IN  shorter \cup {Append(s, x) : s \in {t \in shorter : Len(t) = n - 1}, x \in S}

\* body.numbers: absent, present but not an array, or an array of numbers
NumbersInputs  ==
  {[type |-> "undefined", items |-> <<>>], [type |-> "string", items |-> <<>>]}
    \cup {[type |-> "array", items |-> s] : s \in SeqsUpTo(Nums, MaxLen)}
BuyerInputs    == {<<>>, <<Blank>>, <<"a">>, <<Blank, "b", Blank>>}
PasswordInputs == {Missing, <<Blank>>, Rifa2024, Secret}
NoParam        == <<>>                \* a route without :number
Bodies         ==
  [numbers : NumbersInputs, buyer : BuyerInputs, password : PasswordInputs, param : {NoParam}]

Range(s) == {s[i] : i \in 1..Len(s)}

\* ------------------------------------------------------------- state
VARIABLES
  variant,        \* which purchase handler is deployed
  adminPassword,  \* process.env.ADMIN_PASSWORD (Missing when not configured)
  store,          \* the collection: ticket number -> document
  clock,          \* value of the next new Date()
  pc,             \* per request: position in the handler
  req,            \* per request: the body {numbers, buyer, password}
  docs,           \* per request: the result of its last find
  now,            \* per request: the date captured for its update
  pending,        \* per request: indexes of numbers still to be updated one by one
  resp,           \* per request: the response sent
  prior,          \* per request: the requests already answered when it arrived
  seen,           \* per request: the collection as its find read it
  wrote,          \* per request: the tickets its updates modified
  access,         \* per request: store operations executed for it
  kind,           \* per activity: a purchase, another route or a startup
  counts,         \* per request: the counts read so far by the statistics route
  listing,        \* per request: the numbers of a list response, in its order
  dupes,          \* numbers the collection holds in a second document
  conn            \* the mongoose connection and the calls that open it

vars == <<variant, adminPassword, store, clock, pc, req, docs, now, pending,
          resp, prior, seen, wrote, access, kind, counts, listing, dupes, conn>>

\* ------------------------------------------------------------- strings
IsSpace(c) == c = Blank

\* String.prototype.trim: drop the leading and the trailing white space
RECURSIVE TrimLeft(_)
TrimLeft(s) == IF s # <<>> /\ IsSpace(Head(s)) THEN TrimLeft(Tail(s)) ELSE s

RECURSIVE TrimRight(_)
TrimRight(s) ==
  IF s # <<>> /\ IsSpace(s[Len(s)]) THEN TrimRight(SubSeq(s, 1, Len(s) - 1)) ELSE s

Trim(s) == TrimRight(TrimLeft(s))

\* ------------------------------------------------------------- documents
Available == [sold |-> FALSE, buyer |-> NoBuyer, soldAt |-> 0]

\* the collection after initialization: 1..PoolSize, all available
InitialStore == [n \in Pool |-> Available]

\* the variants whose documents are {id, buyer, selected}
BuyerField(v) == v \in {"part000", "database"}

\* the variants that commit with one findOneAndUpdate per number and fetch
\* the whole list again before they answer
PerNumber(v) == v \in {"numbers", "part001"}

\* the variants that count the documents found against the numbers asked
CountsDocs(v) == v \in {"numbers", "index"}

\* the variants that compare the password with ADMIN_PASSWORD
ChecksSecret(v) == v \in {"part000", "apiserver", "database", "part001"}

\* the variants whose update carries a new Date()
ReadsClock(v) == v \in {"numbers", "index", "apiserver", "part001"}

\* ------------------------------------------------------------- responses
NoResp == [status |-> 0, error |-> "", named |-> {}]
Response(status, error, named) == [status |-> status, error |-> error, named |-> named]

\* the statistics route before its first count
NoCounts == [total |-> 0, sold |-> 0, available |-> 0, revenue |-> 0]

\* ADMIN_PASSWORD as the variant reads it
AdminPasswordOf(v, env) ==
  IF v = "database" /\ env = Missing THEN Rifa2024 ELSE env

NumbersInvalid(numbers) == numbers.type # "array" \/ Len(numbers.items) = 0

\* the buyer check without the trim
BuyerInvalidNoTrim(buyer) == buyer = Missing \/ buyer = <<>>

BuyerInvalid(buyer) == buyer = Missing \/ buyer = <<>> \/ Trim(buyer) = <<>>

PasswordInvalid(v, password) ==
  \/ password = Missing
  \/ password = <<>>
  \/ CountsDocs(v) /\ Trim(password) = <<>>

\* the synchronous checks of a handler before its first store operation:
\* the response they send, or NoResp when the request goes on to the store
Validation(v, env, body) ==
  IF NumbersInvalid(body.numbers) THEN
    Response(400, IF CountsDocs(v) THEN "Invalid request" ELSE "Numeros invalidos", {})
  ELSE IF BuyerInvalid(body.buyer) THEN
    Response(400, IF CountsDocs(v) THEN "Invalid request"
                  ELSE "Nome do comprador e obrigatorio", {})
  ELSE IF v = "part001" THEN
    IF body.password = Missing \/ body.password = <<>> \/ body.password # env
    THEN Response(401, "Senha invalida", {}) ELSE NoResp
  ELSE IF PasswordInvalid(v, body.password) THEN
    Response(400, IF CountsDocs(v) THEN "Invalid request"
                  ELSE "Senha de verificacao e obrigatoria", {})
  ELSE IF ChecksSecret(v) /\ body.password # AdminPasswordOf(v, env) THEN
    Response(IF v = "database" THEN 400 ELSE 401, "Senha de verificacao incorreta", {})
  ELSE NoResp

\* ------------------------------------------------------------- store queries
\* "already sold" as the find of the variant tests it
IsSoldDoc(v, d) == IF BuyerField(v) THEN d.buyer # NoBuyer ELSE d.sold

\* the documents the pre-check find returns
FindDocs(v, items, st) ==
  LET match == {n \in DOMAIN st :
                  /\ n \in Range(items)
                  /\ (CountsDocs(v) \/ v = "part001" \/ IsSoldDoc(v, st[n]))}
  IN  [n \in match |-> st[n]]

\* the report without the filter on isAvailable
UnavailableNoFilter(v, ds) == DOMAIN ds

\* the numbers the handler reports as sold
Unavailable(v, ds) ==
  IF CountsDocs(v) \/ v = "part001" THEN {n \in DOMAIN ds : ds[n].sold} ELSE DOMAIN ds

\* the decision of the handler on the documents found
Decision(v, items, ds) ==
  IF CountsDocs(v) /\ Cardinality(DOMAIN ds) # Len(items) THEN
    Response(400, "Invalid numbers", {})
  ELSE IF Unavailable(v, ds) # {} THEN
    Response(400, IF CountsDocs(v) THEN "Numbers not available"
                  ELSE "Alguns numeros ja foram vendidos", Unavailable(v, ds))
  ELSE NoResp

\* the document after the $set of the variant
SoldDoc(v, d, buyer, at) ==
  IF BuyerField(v) THEN [d EXCEPT !.buyer = Trim(buyer), !.sold = TRUE]
  ELSE IF v = "apiserver" THEN [d EXCEPT !.sold = TRUE, !.soldAt = at]
  ELSE [sold |-> TRUE, buyer |-> Trim(buyer), soldAt |-> at]

\* updateMany({}, $set): the update without its filter
UpdateManyAll(v, st, items, buyer, at) ==
  [n \in DOMAIN st |-> SoldDoc(v, st[n], buyer, at)]

\* updateMany({number: {$in: items}}, $set)
UpdateMany(v, st, items, buyer, at) ==
  [n \in DOMAIN st |-> IF n \in Range(items) THEN SoldDoc(v, st[n], buyer, at) ELSE st[n]]

\* findOneAndUpdate({number: k}, $set)
UpdateOne(v, st, k, buyer, at) ==
  [n \in DOMAIN st |-> IF n = k THEN SoldDoc(v, st[n], buyer, at) ELSE st[n]]

\* the index the per-number commit may execute next: the for loop of
\* api/numbers.ts goes in order, the Promise.all of part_001 in any order
NextIndexes(v, pend) ==
  IF v = "numbers" THEN {i \in pend : \A j \in pend : i <= j} ELSE pend

\* mongoose.connection.readyState
Disconnected == 0
Connected    == 1
Connecting   == 2

\* the connection of a deployment that is up and serving: connected, and no
\* call of connectDB / connectWithRetry under way
\* the calls of connectWithRetry: the one made when the module is loaded
\* (0) and the one ensureConnection makes for request r (r)
Chains == 0..MaxReq

\* conn.readyState  mongoose.connection.readyState
\* conn.reachable   the database answers a connection attempt
\* conn.retryCount  per request: retryCount of its call of connectDB
\* conn.attempts    per request: mongoose.connect calls its connectDB made
\* conn.inits       per call: initializeNumbers runs it made
\* conn.chain       per call of connectWithRetry: where it is
\* conn.retried     per call of connectWithRetry: an attempt of it failed
Serving ==
  [readyState |-> Connected,
   reachable  |-> TRUE,
   retryCount |-> [r \in Req |-> 0],
   attempts   |-> [r \in Req |-> 0],
   inits      |-> [c \in Chains |-> 0],
   chain      |-> [c \in Chains |-> "unused"],
   retried    |-> [c \in Chains |-> FALSE],
   server     |-> "off"]

\* ------------------------------------------------------------- initial state
Init ==
  /\ variant \in Variants
  /\ adminPassword \in (IF ChecksSecret(variant) THEN {Missing, Secret} ELSE {Secret})
  /\ store = InitialStore
  /\ clock = 1
  /\ pc = [r \in Req |-> "idle"]
  /\ req = [r \in Req |-> [numbers |-> [type |-> "undefined", items |-> <<>>],
                            buyer |-> NoBuyer, password |-> Missing, param |-> NoParam]]
  /\ docs = [r \in Req |-> NoDocs]
  /\ now = [r \in Req |-> 0]
  /\ pending = [r \in Req |-> {}]
  /\ resp = [r \in Req |-> NoResp]
  /\ prior = [r \in Req |-> {}]
  /\ seen = [r \in Req |-> NoDocs]
  /\ wrote = [r \in Req |-> {}]
  /\ access = [r \in Req |-> 0]
  /\ kind = [r \in Req |-> "purchase"]
  /\ counts = [r \in Req |-> NoCounts]
  /\ listing = [r \in Req |-> <<>>]
  /\ dupes = {}
  /\ conn = Serving

\* ------------------------------------------------------------- the handler
\* A request arrives: the handler runs its synchronous checks and either
\* answers or issues the pre-check find.  Requests take the slots in order.
ReceiveBody(r, body) ==
  LET v == Validation(variant, adminPassword, body) IN
  /\ req' = [req EXCEPT ![r] = body]
  /\ prior' = [prior EXCEPT ![r] = {q \in Req : pc[q] = "done"}]
  /\ resp' = [resp EXCEPT ![r] = v]
  /\ pc' = [pc EXCEPT ![r] = IF v = NoResp THEN "find" ELSE "done"]

Receive(r) ==
  /\ pc[r] = "idle"
  /\ \A q \in Req : q < r => pc[q] # "idle"
  /\ \E body \in Bodies : ReceiveBody(r, body)
  /\ UNCHANGED <<kind, counts, listing, dupes, conn, variant, adminPassword, store, clock, docs, now, pending,
                 seen, wrote, access>>

\* MongoDB executes the pre-check find of the request
DbFind(r) ==
  /\ pc[r] = "find"
  /\ docs' = [docs EXCEPT ![r] = FindDocs(variant, req[r].numbers.items, store)]
  /\ seen' = [seen EXCEPT ![r] = store]
  /\ access' = [access EXCEPT ![r] = @ + 1]
  /\ pc' = [pc EXCEPT ![r] = "afterFind"]
  /\ UNCHANGED <<kind, counts, listing, dupes, conn, variant, adminPassword, store, clock, req, now, pending,
                 resp, prior, wrote>>

\* the continuation without the return after the 400: the update is issued
\* whatever was answered
AfterFindNoReturn(r) ==
  /\ pc[r] = "afterFind"
  /\ resp' = [resp EXCEPT ![r] = Decision(variant, req[r].numbers.items, docs[r])]
  /\ now' = [now EXCEPT ![r] = IF ReadsClock(variant) THEN clock ELSE 0]
  /\ clock' = IF ReadsClock(variant) THEN clock + 1 ELSE clock
  /\ pending' = [pending EXCEPT ![r] =
                   IF PerNumber(variant) THEN 1..Len(req[r].numbers.items) ELSE {}]
  /\ pc' = [pc EXCEPT ![r] = IF PerNumber(variant) THEN "updateOne" ELSE "updateMany"]
  /\ UNCHANGED <<kind, counts, listing, dupes, conn, variant, adminPassword, store, req, docs, prior, seen, wrote, access>>

\* the handler resumes with the documents: it answers 400 or issues the update
AfterFind(r) ==
  /\ pc[r] = "afterFind"
  /\ LET d == Decision(variant, req[r].numbers.items, docs[r]) IN
     IF d # NoResp THEN
       /\ resp' = [resp EXCEPT ![r] = d]
       /\ pc' = [pc EXCEPT ![r] = "done"]
       /\ UNCHANGED <<clock, now, pending>>
     ELSE
       /\ now' = [now EXCEPT ![r] = IF ReadsClock(variant) THEN clock ELSE 0]
       /\ clock' = IF ReadsClock(variant) THEN clock + 1 ELSE clock
       /\ pending' = [pending EXCEPT ![r] =
                        IF PerNumber(variant) THEN 1..Len(req[r].numbers.items) ELSE {}]
       /\ pc' = [pc EXCEPT ![r] = IF PerNumber(variant) THEN "updateOne" ELSE "updateMany"]
       /\ UNCHANGED resp
  /\ UNCHANGED <<kind, counts, listing, dupes, conn, variant, adminPassword, store, req, docs, prior, seen, wrote, access>>

\* MongoDB executes the updateMany of the request
DbUpdateMany(r) ==
  /\ pc[r] = "updateMany"
  /\ store' = UpdateMany(variant, store, req[r].numbers.items, req[r].buyer, now[r])
  /\ wrote' = [wrote EXCEPT ![r] = @ \cup (Range(req[r].numbers.items) \cap DOMAIN store)]
  /\ access' = [access EXCEPT ![r] = @ + 1]
  /\ pc' = [pc EXCEPT ![r] = "afterUpdate"]
  /\ UNCHANGED <<kind, counts, listing, dupes, conn, variant, adminPassword, clock, req, docs, now, pending, resp,
                 prior, seen>>

\* MongoDB executes one findOneAndUpdate of the request.  The updates of
\* part_001 are all in flight at once and go on after a sibling has failed.
DbUpdateOne(r) ==
  /\ pending[r] # {}
  /\ \/ pc[r] = "updateOne"
     \/ variant = "part001" /\ pc[r] = "done"
  /\ \E i \in NextIndexes(variant, pending[r]) :
       LET k == req[r].numbers.items[i] IN
       /\ store' = UpdateOne(variant, store, k, req[r].buyer, now[r])
       /\ wrote' = [wrote EXCEPT ![r] = @ \cup ({k} \cap DOMAIN store)]
       /\ pending' = [pending EXCEPT ![r] = @ \ {i}]
       /\ pc' = [pc EXCEPT ![r] =
                   IF pc[r] = "updateOne" /\ pending[r] = {i} THEN "refetch" ELSE @]
  /\ access' = [access EXCEPT ![r] = @ + 1]
  /\ UNCHANGED <<kind, counts, listing, dupes, conn, variant, adminPassword, clock, req, docs, now, resp, prior, seen>>

\* MongoDB executes the find of the whole list that precedes the answer
DbRefetch(r) ==
  /\ pc[r] = "refetch"
  /\ docs' = [docs EXCEPT ![r] = store]
  /\ access' = [access EXCEPT ![r] = @ + 1]
  /\ pc' = [pc EXCEPT ![r] = "afterUpdate"]
  /\ UNCHANGED <<kind, counts, listing, dupes, conn, variant, adminPassword, store, clock, req, now, pending, resp,
                 prior, seen, wrote>>

\* the handler resumes after its last store operation and answers 200
AfterUpdate(r) ==
  /\ pc[r] = "afterUpdate"
  /\ resp' = [resp EXCEPT ![r] =
               Response(200, IF CountsDocs(variant) THEN "Numbers purchased successfully"
                             ELSE "success", {})]
  /\ pc' = [pc EXCEPT ![r] = "done"]
  /\ UNCHANGED <<kind, counts, listing, dupes, conn, variant, adminPassword, store, clock, req, docs, now, pending,
                 prior, seen, wrote, access>>

\* a store operation throws and the catch block only logs the error
DbThrowSilent(r) ==
  /\ pc[r] \in {"find", "updateMany", "updateOne", "refetch"}
  /\ pc' = [pc EXCEPT ![r] = "done"]
  /\ pending' = [pending EXCEPT ![r] = {}]
  /\ UNCHANGED <<kind, counts, listing, dupes, conn, variant, adminPassword, store, clock, req, docs, now, prior,
                 seen, wrote, access, resp>>

\* a store operation of the request throws: the catch block answers 500
DbThrow(r) ==
  /\ pc[r] \in {"find", "updateMany", "updateOne", "refetch"}
  /\ resp' = [resp EXCEPT ![r] = Response(500, "Erro ao processar compra", {})]
  /\ pc' = [pc EXCEPT ![r] = "done"]
  /\ pending' = [pending EXCEPT ![r] =
                  IF variant = "part001" /\ pc[r] = "updateOne"
                  THEN @ \ {CHOOSE i \in @ : TRUE} ELSE {}]
  /\ UNCHANGED <<kind, counts, listing, dupes, conn, variant, adminPassword, store, clock, req, docs, now, prior,
                 seen, wrote, access>>

Next ==
  \E r \in Req :
    \/ Receive(r)
    \/ DbFind(r)
    \/ AfterFind(r)
    \/ DbUpdateMany(r)
    \/ DbUpdateOne(r)
    \/ DbRefetch(r)
    \/ AfterUpdate(r)
    \/ DbThrow(r)

Spec == Init /\ [][Next]_vars

\* the steps that follow the arrival of request r: every store call returns
\* or throws, and the handler runs on when it does
Progress(r) ==
  \/ DbFind(r)
  \/ AfterFind(r)
  \/ DbUpdateMany(r)
  \/ DbUpdateOne(r)
  \/ DbRefetch(r)
  \/ AfterUpdate(r)
  \/ DbThrow(r)

FairStore == \A r \in Req : WF_vars(Progress(r))

SpecLive == Init /\ [][Next]_vars /\ FairStore

\* ------------------------------------------------------------- the other routes
\* The deployments also start up (count, then insert the tickets when the
\* count is 0), select one ticket (the first application of api/server.ts,
\* "selectserver"), reset, count for the statistics and list the sold
\* tickets.  SpecAdmin runs these together with the purchases, from an empty
\* collection; an answered activity leaves its slot to a later one.
MaxClock == 3      \* dates a behaviour of SpecAdmin reads before arrivals stop

AdminVariants == {"selectserver", "apiserver", "numbers", "part000", "database"}

\* the activities a deployment has
KindsOf(v) ==
  IF v = "selectserver" THEN {"startup", "list", "select", "selected", "reset"}
  ELSE IF v = "apiserver" THEN {"startup", "list", "purchase", "stats", "selected", "reset"}
  ELSE IF v = "part000" THEN {"startup", "list", "purchase", "stats"}
  ELSE {"startup", "list", "purchase"}

\* well-formed purchase bodies
AdminBodies ==
  [numbers  : {[type |-> "array", items |-> s] : s \in {<<1>>, <<2>>, <<1, 2>>}},
   buyer    : {<<"a">>},
   password : {Secret},
   param    : {NoParam}]

\* the x-admin-password header of a request
HeaderInputs == {Missing, Secret}

EmptyBody ==
  [numbers |-> [type |-> "undefined", items |-> <<>>], buyer |-> NoBuyer,
   password |-> Missing, param |-> NoParam]

\* the collection before the first startup
EmptyStore == [n \in {} |-> Available]

\* the requests in flight
InFlight == {q \in Req : pc[q] \notin {"idle", "done"}}

\* the :number of a select request as the client writes it
ParamInputs == {<<"1">>, <<"2">>, <<"3">>, <<"0">>, <<"x">>, <<"1", "x">>}

DecimalDigits == <<"0", "1", "2", "3", "4", "5", "6", "7", "8", "9">>
IsDigit(c)    == \E d \in 1..10 : DecimalDigits[d] = c
DigitValue(c) == (CHOOSE d \in 1..10 : DecimalDigits[d] = c) - 1

\* the longest prefix of s made of digits
RECURSIVE LeadingDigits(_)
LeadingDigits(s) ==
  IF s # <<>> /\ IsDigit(Head(s)) THEN <<Head(s)>> \o LeadingDigits(Tail(s)) ELSE <<>>

\* the value of a sequence of digits
RECURSIVE DecimalValue(_)
DecimalValue(ds) ==
  IF ds = <<>> THEN 0
  ELSE 10 * DecimalValue(SubSeq(ds, 1, Len(ds) - 1)) + DigitValue(ds[Len(ds)])

\* NaN, kept apart from every number a parameter can denote
NaN == 0 - 1000

\* parseInt(s): leading white space is skipped, then the digits up to the
\* first character that is not one are read; NaN when there is none
ParseInt(s) ==
  LET ds == LeadingDigits(TrimLeft(s)) IN
  IF ds = <<>> THEN NaN ELSE DecimalValue(ds)

\* yup: number().min(1).max(100), 100 being the size of the pool; NaN is no
\* number for yup
SelectInvalid(n) == n = NaN \/ n < 1 \/ n > PoolSize

\* checkAdminPassword: the header is compared with ADMIN_PASSWORD
AdminDenied(header, env) == header # env

\* the unique index on the ticket number without effect
DuplicateKeyNoIndex(st, n) == FALSE

\* the unique index on the ticket number rejects a second document
DuplicateKey(st, n) == n \in DOMAIN st

\* the collection with a new available ticket n (a second document of a
\* number already held is recorded in dupes)
InsertDoc(st, n) ==
  [m \in DOMAIN st \cup {n} |-> IF m \in DOMAIN st THEN st[m] ELSE Available]

\* the reset that leaves selectedAt in place
ResetDocKeepDate(d) == [d EXCEPT !.sold = FALSE]

\* $set: {isSelected: false, selectedAt: null}
ResetDoc(d) == [d EXCEPT !.sold = FALSE, !.soldAt = 0]

\* an update that flips isSelected on every ticket
ResetAllToggle(st) == [n \in DOMAIN st |-> [st[n] EXCEPT !.sold = ~@, !.soldAt = 0]]

\* updateMany({isSelected: true}, $set)
ResetAll(st) == [n \in DOMAIN st |-> IF st[n].sold THEN ResetDoc(st[n]) ELSE st[n]]

\* the numbers of S in ascending order
RECURSIVE Ascending(_)
Ascending(S) ==
  IF S = {} THEN <<>>
  ELSE LET m == CHOOSE x \in S : \A y \in S : x <= y IN <<m>> \o Ascending(S \ {m})

\* the orders find({isSelected: true}).sort({selectedAt: 1}) can return: the
\* sold tickets by ascending date, tickets of one date in any order
SortedBySoldAt(st) ==
  LET sold == {n \in DOMAIN st : st[n].sold} IN
  {s \in SeqsUpTo(sold, Cardinality(sold)) :
     /\ Len(s) = Cardinality(sold)
     /\ Range(s) = sold
     /\ \A i, j \in 1..Len(s) : i < j => st[s[i]].soldAt <= st[s[j]].soldAt}

InitAdmin ==
  /\ variant \in AdminVariants
  /\ adminPassword \in {Missing, Secret}
  /\ store = EmptyStore
  /\ clock = 1
  /\ pc = [r \in Req |-> "idle"]
  /\ req = [r \in Req |-> EmptyBody]
  /\ docs = [r \in Req |-> NoDocs]
  /\ now = [r \in Req |-> 0]
  /\ pending = [r \in Req |-> {}]
  /\ resp = [r \in Req |-> NoResp]
  /\ prior = [r \in Req |-> {}]
  /\ seen = [r \in Req |-> NoDocs]
  /\ wrote = [r \in Req |-> {}]
  /\ access = [r \in Req |-> 0]
  /\ kind = [r \in Req |-> "purchase"]
  /\ counts = [r \in Req |-> NoCounts]
  /\ listing = [r \in Req |-> <<>>]
  /\ dupes = {}
  /\ conn = Serving

\* the slot r is free for the next activity
Free(r) == pc[r] = "idle" /\ \A q \in Req : q < r => pc[q] # "idle"

\* a purchase arrives while the other routes are served
PurchaseArrives(r) ==
  /\ Free(r)
  /\ "purchase" \in KindsOf(variant)
  /\ clock + Cardinality(InFlight) <= MaxClock
  /\ \E body \in AdminBodies : ReceiveBody(r, body)
  /\ kind' = [kind EXCEPT ![r] = "purchase"]
  /\ UNCHANGED <<counts, listing, dupes, conn, variant, adminPassword, store, clock, docs, now,
                 pending, seen, wrote, access>>

\* a process of the deployment starts and issues countDocuments()
StartupArrives(r) ==
  /\ Free(r)
  /\ kind' = [kind EXCEPT ![r] = "startup"]
  /\ pc' = [pc EXCEPT ![r] = "count"]
  /\ UNCHANGED <<counts, listing, dupes, conn, variant, adminPassword, store, clock, req, docs, now,
                 pending, resp, prior, seen, wrote, access>>

\* MongoDB answers the count; the startup issues insertMany when it is 0
DbCount(r) ==
  /\ pc[r] = "count"
  /\ LET count == Cardinality(DOMAIN store) + Cardinality(dupes) IN
     /\ counts' = [counts EXCEPT ![r].total = count]
     /\ pending' = [pending EXCEPT ![r] = IF count = 0 THEN Pool ELSE {}]
     /\ pc' = [pc EXCEPT ![r] = IF count = 0 THEN "insert" ELSE "done"]
  /\ access' = [access EXCEPT ![r] = @ + 1]
  /\ UNCHANGED <<kind, listing, dupes, conn, variant, adminPassword, store, clock, req, docs, now,
                 resp, prior, seen, wrote>>

\* the startup that writes its tickets with replaceOne and upsert
DbInsertReplace(r) ==
  /\ pc[r] = "insert"
  /\ LET n == CHOOSE x \in pending[r] : \A y \in pending[r] : x <= y IN
     /\ store' = [m \in DOMAIN store \cup {n} |-> IF m = n THEN Available ELSE store[m]]
     /\ pending' = [pending EXCEPT ![r] = @ \ {n}]
     /\ pc' = [pc EXCEPT ![r] = IF pending[r] = {n} THEN "done" ELSE "insert"]
  /\ access' = [access EXCEPT ![r] = @ + 1]
  /\ UNCHANGED <<kind, counts, listing, dupes, conn, variant, adminPassword, clock, req, docs, now,
                 resp, prior, seen, wrote>>

\* MongoDB inserts the next document of the ordered insertMany, or rejects it
\* as a duplicate key: the insertMany stops and the startup logs the error
DbInsert(r) ==
  /\ pc[r] = "insert"
  /\ LET n == CHOOSE x \in pending[r] : \A y \in pending[r] : x <= y IN
     IF DuplicateKey(store, n) THEN
       /\ pending' = [pending EXCEPT ![r] = {}]
       /\ resp' = [resp EXCEPT ![r] = Response(500, "E11000 duplicate key", {n})]
       /\ pc' = [pc EXCEPT ![r] = "done"]
       /\ UNCHANGED <<store, dupes>>
     ELSE
       /\ store' = InsertDoc(store, n)
       /\ dupes' = IF n \in DOMAIN store THEN dupes \cup {n} ELSE dupes
       /\ pending' = [pending EXCEPT ![r] = @ \ {n}]
       /\ pc' = [pc EXCEPT ![r] = IF pending[r] = {n} THEN "done" ELSE "insert"]
       /\ UNCHANGED resp
  /\ access' = [access EXCEPT ![r] = @ + 1]
  /\ UNCHANGED <<kind, counts, listing, conn, variant, adminPassword, clock, req, docs, now,
                 prior, seen, wrote>>

\* POST /api/numbers/:number arrives: parseInt and the yup validation
SelectArrives(r) ==
  /\ Free(r)
  /\ "select" \in KindsOf(variant)
  /\ clock + Cardinality(InFlight) <= MaxClock
  /\ kind' = [kind EXCEPT ![r] = "select"]
  /\ \E p \in ParamInputs :
       LET n == ParseInt(p) IN
       /\ req' = [req EXCEPT ![r].numbers = [type |-> "array", items |-> <<n>>],
                             ![r].param = p]
       /\ resp' = [resp EXCEPT ![r] =
                    IF SelectInvalid(n) THEN Response(400, "ValidationError", {}) ELSE NoResp]
       /\ pc' = [pc EXCEPT ![r] = IF SelectInvalid(n) THEN "done" ELSE "findOne"]
  /\ UNCHANGED <<counts, listing, dupes, conn, variant, adminPassword, store, clock, docs, now,
                 pending, prior, seen, wrote, access>>

\* the document the select handler writes back
SelectDoc(d, at) == [d EXCEPT !.sold = TRUE, !.soldAt = at]

\* MongoDB answers the findOne; the handler answers 404 or 400, or reads the
\* date and issues the updateOne of the document it holds
DbFindOne(r) ==
  /\ pc[r] = "findOne"
  /\ LET n == req[r].numbers.items[1] IN
     IF n \notin DOMAIN store THEN
       /\ resp' = [resp EXCEPT ![r] = Response(404, "Number not found", {})]
       /\ pc' = [pc EXCEPT ![r] = "done"]
       /\ UNCHANGED <<docs, now, clock>>
     ELSE IF store[n].sold THEN
       /\ resp' = [resp EXCEPT ![r] = Response(400, "Number already selected", {n})]
       /\ pc' = [pc EXCEPT ![r] = "done"]
       /\ UNCHANGED <<docs, now, clock>>
     ELSE
       /\ docs' = [docs EXCEPT ![r] = [m \in {n} |-> store[n]]]
       /\ now' = [now EXCEPT ![r] = clock]
       /\ clock' = clock + 1
       /\ pc' = [pc EXCEPT ![r] = "selectUpdate"]
       /\ UNCHANGED resp
  /\ access' = [access EXCEPT ![r] = @ + 1]
  /\ UNCHANGED <<kind, counts, listing, dupes, conn, variant, adminPassword, store, req, pending,
                 prior, seen, wrote>>

\* MongoDB executes updateOne({_id}, numberDoc)
DbSelectUpdate(r) ==
  /\ pc[r] = "selectUpdate"
  /\ LET n == req[r].numbers.items[1] IN
     /\ store' = [store EXCEPT ![n] = SelectDoc(docs[r][n], now[r])]
     /\ wrote' = [wrote EXCEPT ![r] = @ \cup {n}]
  /\ access' = [access EXCEPT ![r] = @ + 1]
  /\ pc' = [pc EXCEPT ![r] = "afterUpdate"]
  /\ UNCHANGED <<kind, counts, listing, dupes, conn, variant, adminPassword, clock, req, docs, now,
                 pending, resp, prior, seen>>

\* POST /api/reset arrives and issues its updateMany
ResetArrives(r) ==
  /\ Free(r)
  /\ "reset" \in KindsOf(variant)
  /\ kind' = [kind EXCEPT ![r] = "reset"]
  /\ \E header \in HeaderInputs : req' = [req EXCEPT ![r].password = header]
  /\ prior' = [prior EXCEPT ![r] = {q \in Req : pc[q] = "done"}]
  /\ pc' = [pc EXCEPT ![r] = "resetUpdate"]
  /\ UNCHANGED <<counts, listing, dupes, conn, variant, adminPassword, store, clock, docs, now,
                 pending, resp, seen, wrote, access>>

\* MongoDB executes the updateMany of the reset
DbReset(r) ==
  /\ pc[r] = "resetUpdate"
  /\ store' = ResetAll(store)
  /\ wrote' = [wrote EXCEPT ![r] = {n \in DOMAIN store : store[n].sold}]
  /\ access' = [access EXCEPT ![r] = @ + 1]
  /\ pc' = [pc EXCEPT ![r] = "afterUpdate"]
  /\ UNCHANGED <<kind, counts, listing, dupes, conn, variant, adminPassword, clock, req, docs, now,
                 pending, resp, prior, seen>>

\* GET /api/admin/numbers arrives: checkAdminPassword, then the find
StatsArrives(r) ==
  /\ Free(r)
  /\ "stats" \in KindsOf(variant)
  /\ kind' = [kind EXCEPT ![r] = "stats"]
  /\ \E header \in HeaderInputs :
       /\ req' = [req EXCEPT ![r].password = header]
       /\ resp' = [resp EXCEPT ![r] =
                    IF AdminDenied(header, adminPassword)
                    THEN Response(401, "Senha administrativa invalida", {}) ELSE NoResp]
       /\ pc' = [pc EXCEPT ![r] =
                  IF AdminDenied(header, adminPassword) THEN "done" ELSE "statsFind"]
  /\ UNCHANGED <<counts, listing, dupes, conn, variant, adminPassword, store, clock, docs, now,
                 pending, prior, seen, wrote, access>>

\* MongoDB executes find(query).sort({number: 1}) of the statistics route
DbStatsFind(r) ==
  /\ pc[r] = "statsFind"
  /\ listing' = [listing EXCEPT ![r] = Ascending(DOMAIN store)]
  /\ access' = [access EXCEPT ![r] = @ + 1]
  /\ pc' = [pc EXCEPT ![r] = "countTotal"]
  /\ UNCHANGED <<kind, counts, dupes, conn, variant, adminPassword, store, clock, req, docs, now,
                 pending, resp, prior, seen, wrote>>

\* R$ 20 por numero
UnitPrice == 20

\* the revenue as the sum of the count and the price
RevenueSum(sold) == sold + UnitPrice

\* revenue: sold * 20
Revenue(sold) == sold * UnitPrice

\* countDocuments(filter) of the statistics route
SoldCount(v, st) == Cardinality({n \in DOMAIN st : IsSoldDoc(v, st[n])})
AvailableCount(v, st) == Cardinality({n \in DOMAIN st : ~IsSoldDoc(v, st[n])})

\* MongoDB executes the next of the three counts of the statistics route;
\* after the third the handler builds its response
DbStatsCount(r) ==
  /\ pc[r] \in {"countTotal", "countSold", "countAvailable"}
  /\ counts' = [counts EXCEPT ![r] =
                  IF pc[r] = "countTotal"
                  THEN [@ EXCEPT !.total = Cardinality(DOMAIN store) + Cardinality(dupes)]
                  ELSE IF pc[r] = "countSold"
                  THEN [@ EXCEPT !.sold = SoldCount(variant, store)]
                  ELSE [@ EXCEPT !.available = AvailableCount(variant, store),
                                 !.revenue = Revenue(counts[r].sold)]]
  /\ pc' = [pc EXCEPT ![r] = IF pc[r] = "countTotal" THEN "countSold"
                             ELSE IF pc[r] = "countSold" THEN "countAvailable"
                             ELSE "afterUpdate"]
  /\ access' = [access EXCEPT ![r] = @ + 1]
  /\ UNCHANGED <<kind, listing, dupes, conn, variant, adminPassword, store, clock, req, docs, now,
                 pending, resp, prior, seen, wrote>>

\* GET /api/selected arrives and issues its find
SelectedArrives(r) ==
  /\ Free(r)
  /\ "selected" \in KindsOf(variant)
  /\ kind' = [kind EXCEPT ![r] = "selected"]
  /\ pc' = [pc EXCEPT ![r] = "selectedFind"]
  /\ UNCHANGED <<counts, listing, dupes, conn, variant, adminPassword, store, clock, req, docs, now,
                 pending, resp, prior, seen, wrote, access>>

\* MongoDB executes find({isSelected: true}).sort({selectedAt: 1})
DbSelectedFind(r) ==
  /\ pc[r] = "selectedFind"
  /\ \E s \in SortedBySoldAt(store) : listing' = [listing EXCEPT ![r] = s]
  /\ access' = [access EXCEPT ![r] = @ + 1]
  /\ pc' = [pc EXCEPT ![r] = "afterUpdate"]
  /\ UNCHANGED <<kind, counts, dupes, conn, variant, adminPassword, store, clock, req, docs, now,
                 pending, resp, prior, seen, wrote>>

\* the documents in descending order of number
RECURSIVE FindAllDescending(_, _)
FindAllDescending(st, du) ==
  IF DOMAIN st = {} THEN <<>>
  ELSE LET m == CHOOSE x \in DOMAIN st : \A y \in DOMAIN st : y <= x
           rest == [n \in DOMAIN st \ {m} |-> st[n]]
       IN  (IF m \in du THEN <<m, m>> ELSE <<m>>) \o FindAllDescending(rest, du \ {m})

\* find().sort({number: 1}): the number of every document, ascending
RECURSIVE FindAllSorted(_, _)
FindAllSorted(st, du) ==
  IF DOMAIN st = {} THEN <<>>
  ELSE LET m == CHOOSE x \in DOMAIN st : \A y \in DOMAIN st : x <= y
           rest == [n \in DOMAIN st \ {m} |-> st[n]]
       IN  (IF m \in du THEN <<m, m>> ELSE <<m>>) \o FindAllSorted(rest, du \ {m})

\* GET /api/numbers arrives and issues its find
ListArrives(r) ==
  /\ Free(r)
  /\ "list" \in KindsOf(variant)
  /\ kind' = [kind EXCEPT ![r] = "list"]
  /\ pc' = [pc EXCEPT ![r] = "listFind"]
  /\ UNCHANGED <<counts, listing, dupes, conn, variant, adminPassword, store, clock, req, docs,
                 now, pending, resp, prior, seen, wrote, access>>

\* MongoDB executes find().sort({number: 1})
DbListFind(r) ==
  /\ pc[r] = "listFind"
  /\ listing' = [listing EXCEPT ![r] = FindAllSorted(store, dupes)]
  /\ seen' = [seen EXCEPT ![r] = store]
  /\ access' = [access EXCEPT ![r] = @ + 1]
  /\ pc' = [pc EXCEPT ![r] = "afterUpdate"]
  /\ UNCHANGED <<kind, counts, dupes, conn, variant, adminPassword, store, clock, req, docs, now,
                 pending, resp, prior, wrote>>

\* an answered activity is over: its slot serves a later one
Recycle(r) ==
  /\ pc[r] = "done"
  /\ pending[r] = {}
  /\ pc' = [pc EXCEPT ![r] = "idle"]
  /\ kind' = [kind EXCEPT ![r] = "purchase"]
  /\ req' = [req EXCEPT ![r] = EmptyBody]
  /\ docs' = [docs EXCEPT ![r] = NoDocs]
  /\ now' = [now EXCEPT ![r] = 0]
  /\ resp' = [resp EXCEPT ![r] = NoResp]
  /\ prior' = [q \in Req |-> IF q = r THEN {} ELSE prior[q] \ {r}]
  /\ seen' = [seen EXCEPT ![r] = NoDocs]
  /\ wrote' = [wrote EXCEPT ![r] = {}]
  /\ access' = [access EXCEPT ![r] = 0]
  /\ counts' = [counts EXCEPT ![r] = NoCounts]
  /\ listing' = [listing EXCEPT ![r] = <<>>]
  /\ UNCHANGED <<dupes, conn, variant, adminPassword, store, clock, pending>>

NextAdmin ==
  \E r \in Req :
    \/ PurchaseArrives(r)
    \/ DbFind(r)
    \/ AfterFind(r)
    \/ DbUpdateMany(r)
    \/ DbUpdateOne(r)
    \/ DbRefetch(r)
    \/ AfterUpdate(r)
    \/ DbThrow(r)
    \/ StartupArrives(r)
    \/ DbCount(r)
    \/ DbInsert(r)
    \/ SelectArrives(r)
    \/ DbFindOne(r)
    \/ DbSelectUpdate(r)
    \/ ResetArrives(r)
    \/ DbReset(r)
    \/ StatsArrives(r)
    \/ DbStatsFind(r)
    \/ DbStatsCount(r)
    \/ SelectedArrives(r)
    \/ DbSelectedFind(r)
    \/ ListArrives(r)
    \/ DbListFind(r)
    \/ Recycle(r)

SpecAdmin == InitAdmin /\ [][NextAdmin]_vars

\* ------------------------------------------------------------- reset against purchase
\* MongoDB does not isolate a multi-document update: the updateMany of a
\* reset visits the documents one after another and tests its filter on
\* each as it visits it, and other writes land in between.  SpecReset runs
\* the purchase and the reset of api/server.ts (151-377) on an initialized
\* pool with the reset executed document by document.
InitReset ==
  /\ variant = "apiserver"
  /\ adminPassword = Secret
  /\ store = InitialStore
  /\ clock = 1
  /\ pc = [r \in Req |-> "idle"]
  /\ req = [r \in Req |-> EmptyBody]
  /\ docs = [r \in Req |-> NoDocs]
  /\ now = [r \in Req |-> 0]
  /\ pending = [r \in Req |-> {}]
  /\ resp = [r \in Req |-> NoResp]
  /\ prior = [r \in Req |-> {}]
  /\ seen = [r \in Req |-> NoDocs]
  /\ wrote = [r \in Req |-> {}]
  /\ access = [r \in Req |-> 0]
  /\ kind = [r \in Req |-> "purchase"]
  /\ counts = [r \in Req |-> NoCounts]
  /\ listing = [r \in Req |-> <<>>]
  /\ dupes = {}
  /\ conn = Serving

\* the documents the reset has still to visit
ResetTodo(r) == IF pc[r] = "resetUpdate" THEN DOMAIN store ELSE pending[r]

\* the visit that leaves a ticket alone while a purchase is in flight
ResetVisitUnlessBusy(st, n) ==
  IF st[n].sold /\ InFlight = {} THEN ResetDoc(st[n]) ELSE st[n]

\* the document n after the reset has visited it
ResetVisit(st, n) == IF st[n].sold THEN ResetDoc(st[n]) ELSE st[n]

\* MongoDB applies the updateMany of the reset to the next document
DbResetDoc(r) ==
  /\ pc[r] \in {"resetUpdate", "resetScan"}
  /\ \E n \in ResetTodo(r) :
       /\ store' = [store EXCEPT ![n] = ResetVisit(store, n)]
       /\ wrote' = [wrote EXCEPT ![r] = IF store[n].sold THEN @ \cup {n} ELSE @]
       /\ pending' = [pending EXCEPT ![r] = ResetTodo(r) \ {n}]
       /\ pc' = [pc EXCEPT ![r] = IF ResetTodo(r) = {n} THEN "afterUpdate" ELSE "resetScan"]
  /\ access' = [access EXCEPT ![r] = @ + 1]
  /\ UNCHANGED <<kind, counts, listing, dupes, conn, variant, adminPassword, clock, req, docs,
                 now, resp, prior, seen>>

NextReset ==
  \E r \in Req :
    \/ PurchaseArrives(r)
    \/ DbFind(r)
    \/ AfterFind(r)
    \/ DbUpdateMany(r)
    \/ AfterUpdate(r)
    \/ ResetArrives(r)
    \/ DbResetDoc(r)

SpecReset == InitReset /\ [][NextReset]_vars

\* ------------------------------------------------------------- the connection
\* api/numbers.ts puts ensureConnection before every route: it calls
\* connectDB, which tries mongoose.connect up to three times when the
\* connection is disconnected.  part_001 calls connectWithRetry when the
\* module is loaded and again from ensureConnection; a failed attempt
\* schedules the next one with setTimeout.  initializeNumbers is one step
\* here (SpecAdmin has its parts); the route behind the middleware is one
\* step that answers.  src/server.ts starts the application of api/index.ts,
\* which has called mongoose.connect when it was loaded.
ConnVariants == {"numbers", "part001", "server"}

\* const maxRetries = 3
MaxRetries == 3

InitConn ==
  /\ variant \in ConnVariants
  /\ adminPassword = Secret
  /\ store = EmptyStore
  /\ clock = 1
  /\ pc = [r \in Req |-> "idle"]
  /\ req = [r \in Req |-> EmptyBody]
  /\ docs = [r \in Req |-> NoDocs]
  /\ now = [r \in Req |-> 0]
  /\ pending = [r \in Req |-> {}]
  /\ resp = [r \in Req |-> NoResp]
  /\ prior = [r \in Req |-> {}]
  /\ seen = [r \in Req |-> NoDocs]
  /\ wrote = [r \in Req |-> {}]
  /\ access = [r \in Req |-> 0]
  /\ kind = [r \in Req |-> "request"]
  /\ counts = [r \in Req |-> NoCounts]
  /\ listing = [r \in Req |-> <<>>]
  /\ dupes = {}
  /\ \E up \in BOOLEAN, begin \in {Disconnected, Connecting} :
       /\ variant = "part001" => begin = Connecting
       /\ variant = "numbers" => begin = Disconnected
       /\ conn = [Serving EXCEPT
                    !.reachable = up,
                    !.readyState = begin,
                    !.chain = [c \in Chains |->
                                 IF variant = "part001" /\ c = 0 THEN "connecting" ELSE "unused"],
                    !.server = IF variant = "server" THEN "start" ELSE "off"]

\* what the actions of the connection leave alone
ConnFrame ==
  UNCHANGED <<variant, adminPassword, clock, req, docs, now, pending, prior, seen, wrote,
              counts, listing, dupes>>

\* the database becomes reachable or unreachable
Flip ==
  /\ conn' = [conn EXCEPT !.reachable = ~@]
  /\ UNCHANGED <<store, pc, resp, access, kind>>
  /\ ConnFrame

\* the driver notices that the database is gone
Drop ==
  /\ conn.readyState = Connected
  /\ ~conn.reachable
  /\ conn' = [conn EXCEPT !.readyState = Disconnected]
  /\ UNCHANGED <<store, pc, resp, access, kind>>
  /\ ConnFrame

\* initializeNumbers: the tickets are inserted when the collection is empty
InitializeNumbers(st) == IF DOMAIN st = {} THEN InitialStore ELSE st

\* the catch block that never gives up
ExhaustedNever(n) == FALSE

\* retryCount === maxRetries
Exhausted(n) == n = MaxRetries

\* one turn of the while loop of connectDB for request r, with the
\* connection as c: mongoose.connect is called when the connection is
\* disconnected, otherwise connectDB returns and ensureConnection calls next()
LoopTurn(r, c) ==
  IF c.retryCount[r] < MaxRetries /\ c.readyState = Disconnected THEN
    /\ conn' = [c EXCEPT !.readyState = Connecting, !.attempts[r] = @ + 1]
    /\ pc' = [pc EXCEPT ![r] = "connecting"]
  ELSE
    /\ conn' = c
    /\ pc' = [pc EXCEPT ![r] = "handler"]

\* a request arrives at ensureConnection of api/numbers.ts
ConnArrives(r) ==
  /\ variant = "numbers"
  /\ Free(r)
  /\ LoopTurn(r, conn)
  /\ UNCHANGED <<store, resp, access, kind>>
  /\ ConnFrame

\* mongoose.connect of request r resolves or rejects
ConnectSettles(r) ==
  /\ variant = "numbers"
  /\ pc[r] = "connecting"
  /\ IF conn.reachable THEN
       /\ conn' = [conn EXCEPT !.readyState = Connected]
       /\ pc' = [pc EXCEPT ![r] = "init"]
       /\ UNCHANGED resp
     ELSE
       LET n == conn.retryCount[r] + 1 IN
       /\ conn' = [conn EXCEPT !.readyState = Disconnected, !.retryCount[r] = n]
       /\ pc' = [pc EXCEPT ![r] = IF Exhausted(n) THEN "done" ELSE "backoff"]
       /\ resp' = [resp EXCEPT ![r] =
                    IF Exhausted(n) THEN Response(500, "Database connection error", {})
                    ELSE @]
  /\ UNCHANGED <<store, access, kind>>
  /\ ConnFrame

\* initializeNumbers of request r returns: connectDB returns, next()
InitReturns(r) ==
  /\ variant = "numbers"
  /\ pc[r] = "init"
  /\ store' = InitializeNumbers(store)
  /\ conn' = [conn EXCEPT !.inits[r] = @ + 1]
  /\ pc' = [pc EXCEPT ![r] = "handler"]
  /\ UNCHANGED <<resp, access, kind>>
  /\ ConnFrame

\* the wait of 1000 * retryCount ms is over: the loop takes its next turn
BackoffEnds(r) ==
  /\ variant = "numbers"
  /\ pc[r] = "backoff"
  /\ LoopTurn(r, conn)
  /\ UNCHANGED <<store, resp, access, kind>>
  /\ ConnFrame

\* the route handler behind the middleware runs and answers
RunHandler(r) ==
  /\ pc[r] = "handler"
  /\ resp' = [resp EXCEPT ![r] =
               IF conn.readyState = Connected THEN Response(200, "success", {})
               ELSE Response(500, "Error fetching numbers", {})]
  /\ access' = [access EXCEPT ![r] = @ + 1]
  /\ pc' = [pc EXCEPT ![r] = "done"]
  /\ UNCHANGED <<store, conn, kind>>
  /\ ConnFrame

\* readyState after an attempt of call c of connectWithRetry has failed
AfterFailure(c) ==
  IF conn.readyState = Connected THEN Connected
  ELSE IF \E d \in Chains \ {c} : conn.chain[d] = "connecting" THEN Connecting
  ELSE Disconnected

\* the request that awaits call c of connectWithRetry goes on to next()
Resume(c) ==
  IF c \in Req /\ pc[c] = "awaitConnect" THEN pc' = [pc EXCEPT ![c] = "handler"]
  ELSE UNCHANGED pc

\* a request arrives at ensureConnection of part_001
RetryArrives(r) ==
  /\ variant = "part001"
  /\ Free(r)
  /\ IF conn.readyState # Connected THEN
       /\ conn' = [conn EXCEPT !.readyState = Connecting, !.chain[r] = "connecting"]
       /\ pc' = [pc EXCEPT ![r] = "awaitConnect"]
     ELSE
       /\ pc' = [pc EXCEPT ![r] = "handler"]
       /\ UNCHANGED conn
  /\ UNCHANGED <<store, resp, access, kind>>
  /\ ConnFrame

\* the catch block that only logs the error
ChainFailsNoTimer(c) ==
  /\ conn' = [conn EXCEPT !.readyState = AfterFailure(c),
                          !.chain[c] = "finished",
                          !.retried[c] = TRUE]
  /\ Resume(c)

\* the catch block of connectWithRetry: log, setTimeout(connectWithRetry,
\* 5000), return
ChainFails(c) ==
  /\ conn' = [conn EXCEPT !.readyState = AfterFailure(c),
                          !.chain[c] = "waiting",
                          !.retried[c] = TRUE]
  /\ Resume(c)

\* mongoose.connect of call c resolves, or rejects into the catch block
ChainSettles(c) ==
  /\ variant = "part001"
  /\ conn.chain[c] = "connecting"
  /\ IF conn.reachable \/ conn.readyState = Connected THEN
       /\ conn' = [conn EXCEPT !.readyState = Connected, !.chain[c] = "init"]
       /\ UNCHANGED pc
     ELSE ChainFails(c)
  /\ UNCHANGED <<store, resp, access, kind>>
  /\ ConnFrame

\* initializeNumbers of call c returns and connectWithRetry with it
ChainInit(c) ==
  /\ variant = "part001"
  /\ conn.chain[c] = "init"
  /\ store' = InitializeNumbers(store)
  /\ conn' = [conn EXCEPT !.inits[c] = @ + 1, !.chain[c] = "finished"]
  /\ Resume(c)
  /\ UNCHANGED <<resp, access, kind>>
  /\ ConnFrame

\* the timer of call c fires: connectWithRetry runs again
TimerFires(c) ==
  /\ variant = "part001"
  /\ conn.chain[c] = "waiting"
  /\ conn' = [conn EXCEPT
                !.readyState = IF @ = Connected THEN Connected ELSE Connecting,
                !.chain[c] = "connecting"]
  /\ UNCHANGED <<store, pc, resp, access, kind>>
  /\ ConnFrame

\* mongoose.connect(MONGODB_URI) of api/index.ts, called when the module was
\* loaded, resolves or rejects
LoadSettles ==
  /\ variant = "server"
  /\ conn.readyState = Connecting
  /\ conn' = [conn EXCEPT !.readyState = IF conn.reachable THEN Connected ELSE Disconnected]
  /\ UNCHANGED <<store, pc, resp, access, kind>>
  /\ ConnFrame

\* if (mongoose.connection.readyState === 0)
MustWait(state) == state = Disconnected

\* startServer up to its first await, or up to app.listen
StartServer ==
  /\ variant = "server"
  /\ conn.server = "start"
  /\ conn' = [conn EXCEPT
                !.server = IF MustWait(conn.readyState) THEN "polling" ELSE "listening"]
  /\ UNCHANGED <<store, pc, resp, access, kind>>
  /\ ConnFrame

\* checkConnection: resolve when readyState is 1 (app.listen follows),
\* otherwise setTimeout(checkConnection, 1000)
CheckConnection ==
  /\ variant = "server"
  /\ conn.server = "polling"
  /\ conn' = [conn EXCEPT
                !.server = IF conn.readyState = Connected THEN "listening" ELSE @]
  /\ UNCHANGED <<store, pc, resp, access, kind>>
  /\ ConnFrame

NextConn ==
  \/ Flip
  \/ Drop
  \/ LoadSettles
  \/ StartServer
  \/ CheckConnection
  \/ \E r \in Req :
       \/ ConnArrives(r)
       \/ ConnectSettles(r)
       \/ InitReturns(r)
       \/ BackoffEnds(r)
       \/ RunHandler(r)
       \/ RetryArrives(r)
  \/ \E c \in Chains :
       \/ ChainSettles(c)
       \/ ChainInit(c)
       \/ TimerFires(c)

\* promises settle (serverSelectionTimeoutMS bounds an attempt), timers fire
\* and the event loop runs every continuation that is ready
FairConn ==
  /\ \A r \in Req :
       /\ WF_vars(ConnectSettles(r))
       /\ WF_vars(InitReturns(r))
       /\ WF_vars(BackoffEnds(r))
       /\ WF_vars(RunHandler(r))
  /\ \A c \in Chains :
       /\ WF_vars(ChainSettles(c))
       /\ WF_vars(ChainInit(c))
       /\ WF_vars(TimerFires(c))

SpecConn == InitConn /\ [][NextConn]_vars /\ FairConn

\* ------------------------------------------------------------- vocabulary
Items(r)   == req[r].numbers.items
Asked(r)   == Range(Items(r))
Done(r)    == pc[r] = "done"
Success(r) == resp[r].status = 200
AlreadySold(r) ==
  /\ resp[r].status = 400
  /\ resp[r].error \in {"Numbers not available", "Alguns numeros ja foram vendidos"}
UnknownTicket(r) == resp[r].status = 400 /\ resp[r].error = "Invalid numbers"
StoreError(r)    == resp[r].status = 500
AllSpaces(s)     == \A i \in 1..Len(s) : s[i] = Blank
\* the two requests were in flight together
Simultaneous(r1, r2) == r1 \notin prior[r2] /\ r2 \notin prior[r1]

\* ------------------------------------------------------------- claims

\* C1: no two purchase requests that both name a ticket t of the pool are
\* both answered with success.
C1_NoDoubleSell ==
  \A r1, r2 \in Req :
    (r1 # r2 /\ Success(r1) /\ Success(r2)) => Asked(r1) \cap Asked(r2) \cap Pool = {}

\* C2: of two simultaneous purchases of the same single ticket t that both
\* got their answer from the handler (no store error), exactly one succeeds
\* and the other is told AlreadySold with a conflict list naming t.
C2_ExactlyOneWins ==
  \A r1, r2 \in Req : \A t \in Pool :
    ( /\ r1 # r2 /\ Done(r1) /\ Done(r2) /\ Simultaneous(r1, r2)
      /\ Items(r1) = <<t>> /\ Items(r2) = <<t>>
      /\ access[r1] > 0 /\ access[r2] > 0
      /\ ~StoreError(r1) /\ ~StoreError(r2) )
    => \/ Success(r1) /\ AlreadySold(r2) /\ resp[r2].named = {t}
       \/ Success(r2) /\ AlreadySold(r1) /\ resp[r1].named = {t}

\* C3: a purchase answered AlreadySold or UnknownTicket has modified no
\* ticket and has no update in flight.
C3_AllOrNothing ==
  \A r \in Req :
    (AlreadySold(r) \/ UnknownTicket(r)) => (wrote[r] = {} /\ pending[r] = {})

\* C3 witness (scenario B): a request for a sold and an available ticket was
\* answered AlreadySold and the available ticket is still available.
C3_Witness ==
  \E r \in Req : \E n \in Asked(r) \cap Pool :
    /\ Done(r) /\ AlreadySold(r)
    /\ n \notin resp[r].named /\ resp[r].named # {}
    /\ ~store[n].sold

\* C4: in no state has a request modified some but not all of the pool
\* tickets it asked for.
C4_AtomicCommit ==
  \A r \in Req : wrote[r] = {} \/ wrote[r] = Asked(r) \cap Pool

\* C5: at the step that answers success (api/numbers.ts), every ticket of
\* the request is sold, carries the trimmed buyer of the request and a sale
\* timestamp.
C5_SuccessRecorded ==
  [][\A r \in Req :
       (variant = "numbers" /\ resp[r] = NoResp /\ resp'[r].status = 200)
       => \A n \in Asked(r) :
            /\ n \in DOMAIN store'
            /\ store'[n].sold
            /\ store'[n].buyer = Trim(req[r].buyer)
            /\ store'[n].soldAt > 0]_vars

\* C6: a purchase (backend/src/database.ts) that names a number outside the
\* pool and got its answer from the handler is answered UnknownTicket naming
\* exactly the missing numbers, and has modified nothing.
C6_UnknownTicketNamed ==
  \A r \in Req :
    ( /\ variant = "database" /\ Done(r) /\ access[r] > 0
      /\ ~StoreError(r) /\ Asked(r) \ Pool # {} )
    => /\ UnknownTicket(r)
       /\ resp[r].named = Asked(r) \ Pool
       /\ wrote[r] = {}

\* C7: the conflict list of an AlreadySold answer is exactly the set of
\* asked tickets that were sold in the collection as the request read it.
C7_ConflictListExact ==
  \A r \in Req :
    AlreadySold(r) =>
      resp[r].named = {n \in Asked(r) \cap DOMAIN seen[r] : seen[r][n].sold}

\* C7 witness: an AlreadySold answer to a request that asked for a sold and
\* for an available ticket names the sold one only.
C7_Witness ==
  \E r \in Req :
    /\ AlreadySold(r)
    /\ \E n \in Asked(r) \cap Pool : seen[r][n].sold /\ n \in resp[r].named
    /\ \E n \in Asked(r) \cap Pool : ~seen[r][n].sold /\ n \notin resp[r].named

C9_RangeCheckedFirst ==
  \A r \in Req : (Asked(r) \ Pool # {}) => access[r] = 0

\* C10: a request identical to one that was answered success before it
\* arrived is answered AlreadySold naming all the numbers it asks for, and
\* modifies nothing (unless the store fails).
C10_RetryFails ==
  \A r \in Req : \A q \in prior[r] :
    (Done(r) /\ ~StoreError(r) /\ Success(q) /\ req[q] = req[r])
    => /\ AlreadySold(r)
       /\ resp[r].named = Asked(r)
       /\ wrote[r] = {}

\* C11: a purchase whose password differs from the configured shared secret
\* is not answered with success and modifies no ticket.
C11_WrongPasswordRejected ==
  \A r \in Req :
    ( /\ pc[r] # "idle" /\ kind[r] = "purchase"
      /\ req[r].password # AdminPasswordOf(variant, adminPassword) )
    => (wrote[r] = {} /\ ~Success(r))

\* C13: the buyer of a ticket is non-empty if and only if the ticket is sold.
C13_BuyerIffSold ==
  \A n \in DOMAIN store : (store[n].buyer # NoBuyer) <=> store[n].sold

\* C14: the sale timestamp of a ticket is present if and only if the ticket
\* is sold.
C14_SoldAtIffSold ==
  \A n \in DOMAIN store : (store[n].soldAt > 0) <=> store[n].sold

\* C18: a purchase answered with a store error (500) has modified no ticket.
C18_StoreErrorChangesNothing ==
  \A r \in Req : (kind[r] = "purchase" /\ StoreError(r)) => wrote[r] = {}

\* C12: a reset request (api/server.ts) that does not present the admin
\* credential modifies no ticket.
C12_ResetNeedsCredential ==
  \A r \in Req :
    (variant = "apiserver" /\ kind[r] = "reset" /\ req[r].password # adminPassword)
    => wrote[r] = {}

\* the step is the updateMany of a reset
ResetStep == \E r \in Req : kind[r] = "reset" /\ pc[r] = "resetUpdate" /\ pc'[r] = "afterUpdate"

\* C15: no step other than the updateMany of a reset turns a sold ticket
\* into one that is not sold, or removes it.
C15_NoUnsellOutsideReset ==
  [][\A n \in DOMAIN store :
       store[n].sold => \/ n \in DOMAIN store' /\ store'[n].sold
                        \/ ResetStep]_vars

\* C15 witness: a purchase or select has sold a ticket that is still sold,
\* and a startup that ran has counted the tickets and inserted nothing.
C15_Witness ==
  \E r, q \in Req : \E n \in DOMAIN store :
    /\ kind[r] = "startup" /\ Done(r) /\ counts[r].total > 0
    /\ kind[q] \in {"purchase", "select"} /\ Done(q) /\ n \in wrote[q]
    /\ store[n].sold

\* C16: the three counts of every answered statistics request that counted
\* the whole pool satisfy total = sold + available.
C16_StatsConsistent ==
  \A r \in Req :
    (kind[r] = "stats" /\ Success(r) /\ counts[r].total = PoolSize)
    => counts[r].total = counts[r].sold + counts[r].available

\* C17: when the updateMany of a reset executes while no purchase and no
\* select is in flight, it leaves every ticket not sold, with no buyer and
\* no sale timestamp.
C17_ResetClearsAll ==
  [][\A r \in Req :
       ( /\ kind[r] = "reset" /\ pc[r] = "resetUpdate" /\ pc'[r] = "afterUpdate"
         /\ \A q \in InFlight : kind[q] \notin {"purchase", "select"} )
       => \A n \in DOMAIN store' : store'[n] = Available]_vars

\* C17 witness: a reset that found sold tickets has been answered and every
\* ticket of the pool is available again.
C17_Witness ==
  \E r \in Req :
    /\ kind[r] = "reset" /\ Done(r) /\ Success(r) /\ wrote[r] # {}
    /\ DOMAIN store = Pool
    /\ \A n \in Pool : store[n] = Available

\* a startup is counting or inserting
StartupInFlight == \E r \in Req : kind[r] = "startup" /\ pc[r] \in {"count", "insert"}

\* the collection holds exactly the tickets 1..PoolSize, one document each
PoolExact(st, du) == DOMAIN st = Pool /\ du = {}

C20_SoldListingByNumber ==
  [][\A r \in Req :
       (variant = "selectserver" /\ pc[r] = "selectedFind" /\ pc'[r] = "afterUpdate")
       => listing'[r] = Ascending({n \in DOMAIN store : store[n].sold})]_vars

\* C22: a statistics request that does not present the admin password (a
\* header equal to the configured ADMIN_PASSWORD) is answered 401 and is
\* given no ticket data and no counts.
C22_StatsNeedPassword ==
  \A r \in Req :
    ( /\ kind[r] = "stats" /\ pc[r] # "idle"
      /\ ~(req[r].password # Missing /\ req[r].password = adminPassword) )
    => /\ resp[r].status = 401
       /\ counts[r] = NoCounts
       /\ listing[r] = <<>>
       /\ access[r] = 0

\* C23: in every answered statistics request the revenue is the sold count
\* of the response multiplied by 20.
C23_RevenueIsSoldTimesPrice ==
  \A r \in Req :
    (kind[r] = "stats" /\ Success(r)) => counts[r].revenue = counts[r].sold * 20

\* C23 witness: an answered statistics request that counted two sold tickets
\* and reports a revenue of 40.
C23_Witness ==
  \E r \in Req :
    kind[r] = "stats" /\ Success(r) /\ counts[r].sold = 2 /\ counts[r].revenue = 40

\* the sequence is strictly ascending
StrictlyAscending(s) == \A i, j \in 1..Len(s) : i < j => s[i] < s[j]

\* C21: the find of the full listing returns every ticket of the collection
\* exactly once in ascending order of number, and no step of a listing
\* request changes the collection; once the pool is initialized the
\* tickets listed are 1..PoolSize.
C21_ListAll ==
  [][\A r \in Req :
       /\ (pc[r] = "listFind" /\ pc'[r] = "afterUpdate")
          => /\ StrictlyAscending(listing'[r])
             /\ Range(listing'[r]) = DOMAIN store
             /\ (DOMAIN store # {} /\ ~StartupInFlight => Range(listing'[r]) = Pool)
       /\ (kind[r] = "list" /\ pc'[r] # pc[r]) => (store' = store /\ dupes' = dupes)]_vars

\* C21 witness: an answered listing of the whole pool, read while a ticket
\* was sold.
C21_Witness ==
  \E r \in Req :
    /\ kind[r] = "list" /\ Success(r)
    /\ listing[r] = Ascending(Pool)
    /\ \E n \in DOMAIN seen[r] : seen[r][n].sold

\* C25: a select never writes a ticket that is selected at that moment: its
\* updateOne finds the ticket not selected.
C25_NoSecondSelect ==
  [][\A r \in Req :
       (kind[r] = "select" /\ pc[r] = "selectUpdate" /\ pc'[r] = "afterUpdate")
       => ~store[req[r].numbers.items[1]].sold]_vars

\* the parameter is a decimal numeral
IsNumeral(p) == p # <<>> /\ \A i \in 1..Len(p) : IsDigit(p[i])

\* C26: a select whose parameter is not a number, or is a number outside
\* 1..PoolSize, is answered 400 without any store access; a select answered
\* 404 had a parameter that passes the validation; neither has written.
C26_SelectValidation ==
  \A r \in Req :
    (kind[r] = "select" /\ pc[r] # "idle")
    => /\ (~IsNumeral(req[r].param) \/ DecimalValue(req[r].param) \notin 1..PoolSize)
          => (resp[r].status = 400 /\ access[r] = 0 /\ wrote[r] = {})
       /\ resp[r].status = 404
          => (IsNumeral(req[r].param) /\ DecimalValue(req[r].param) \in 1..PoolSize
              /\ wrote[r] = {})

\* the step is the updateMany of purchase q, which names ticket n
PurchaseWrites(q, n) ==
  /\ kind[q] = "purchase" /\ pc[q] = "updateMany" /\ pc'[q] = "afterUpdate"
  /\ n \in Asked(q)

\* the step is the visit of the sold ticket n by reset r
ResetWrites(r, n) ==
  /\ kind[r] = "reset" /\ pc[r] \in {"resetUpdate", "resetScan"}
  /\ access'[r] = access[r] + 1
  /\ n \in ResetTodo(r) /\ n \notin pending'[r]
  /\ store[n].sold

\* C24: with a reset and purchases interleaved, every write of a ticket
\* takes effect whatever the other operation is doing (the purchase leaves it
\* sold with its date, the reset leaves it available), nothing else changes
\* a ticket, and so a sold ticket carries the date of the purchase that
\* wrote it last.
C24_LastWriteWins ==
  [][\A n \in Pool :
       /\ \A q \in Req : PurchaseWrites(q, n)
            => (store'[n].sold /\ store'[n].soldAt = now[q])
       /\ \A r \in Req : ResetWrites(r, n) => store'[n] = Available
       /\ (\A q \in Req : ~PurchaseWrites(q, n) /\ ~ResetWrites(q, n))
            => store'[n] = store[n]
       /\ store'[n].sold
            => \E q \in Req : kind'[q] = "purchase" /\ n \in wrote'[q]
                              /\ store'[n].soldAt = now'[q]]_vars

\* C24 witness: a purchase of tickets 1 and 2 answered success while a reset
\* was in flight with it, both are over, and only one of the two tickets is
\* sold.
C24_Witness ==
  \E q, r \in Req :
    /\ kind[q] = "purchase" /\ Done(q) /\ Success(q) /\ Asked(q) = {1, 2}
    /\ kind[r] = "reset" /\ Done(r) /\ Success(r) /\ wrote[r] # {}
    /\ \E n, m \in Asked(q) : store[n].sold /\ ~store[m].sold

\* ensureConnection answered for a connection that could not be opened
ConnectionError(r) ==
  resp[r].status = 500 /\ resp[r].error = "Database connection error"

\* connectDB of request r is under way
InConnectDB(r) == pc[r] \in {"connecting", "init", "backoff"}

C28_PassOnlyWhenConnected ==
  [][\A r \in Req :
       (variant = "numbers" /\ pc[r] # "handler" /\ pc'[r] = "handler")
       => conn'.readyState = Connected]_vars

\* C29: a request (part_001) whose connection attempt failed does not reach
\* its route handler and is answered with the connection error.
C29_FailedAttemptAnswered500 ==
  \A r \in Req :
    (variant = "part001" /\ conn.retried[r])
    => (access[r] = 0 /\ (Done(r) => ConnectionError(r)))

\* C30: in part_001, if the database stays reachable from some point on,
\* every call of connectWithRetry comes to rest finished, having run
\* initializeNumbers once; it reaches initializeNumbers only with the
\* connection established, finishes only out of initializeNumbers, and once
\* finished schedules nothing more.
C30_RetryEventuallyConnects ==
  /\ (<>[](conn.reachable))
       => <>[](\A c \in Chains :
                 /\ conn.chain[c] \in {"unused", "finished"}
                 /\ conn.chain[c] = "finished" => conn.inits[c] = 1)
  /\ [][\A c \in Chains :
          /\ (conn.chain[c] = "connecting" /\ conn'.chain[c] = "init")
               => conn'.readyState = Connected
          /\ (conn.chain[c] # "finished" /\ conn'.chain[c] = "finished")
               => (conn.chain[c] = "init" /\ conn'.inits[c] = 1)
          /\ conn.chain[c] = "finished" => conn'.chain[c] = "finished"]_vars

\* C30 witness: a call of connectWithRetry whose attempt had failed retried,
\* connected, ran initializeNumbers and is finished.
C30_Witness ==
  \E c \in Chains :
    /\ variant = "part001"
    /\ conn.chain[c] = "finished" /\ conn.retried[c] /\ conn.inits[c] = 1
    /\ conn.readyState = Connected /\ DOMAIN store = Pool

\* C31: startServer of src/server.ts calls app.listen only when the connection
\* is open (readyState 1), in whatever state it found the connection.
C31_ListenOnlyWhenConnected ==
  [][(variant = "server" /\ conn.server # "listening" /\ conn'.server = "listening")
       => conn.readyState = Connected]_vars

\* C35: in part_001 at most one call of connectWithRetry is connecting or
\* waiting for its retry timer at any time.
RetryChains == {c \in Chains : conn.chain[c] \in {"connecting", "waiting"}}
C35_SingleRetryChain ==
  variant = "part001" => Cardinality(RetryChains) <= 1

\* C32: a purchase with a well-formed numbers array of pool tickets that are
\* all available, a valid buyer and the configured password, which runs with
\* no other request in flight and no store failure, is answered success and
\* its tickets are sold; the array may name a ticket more than once.
Alone(r) == \A q \in Req \ {r} : pc[q] = "idle" \/ q \in prior[r]
AllAvailableFor(r) ==
  /\ Asked(r) \subseteq Pool
  /\ \A q \in prior[r] : wrote[q] \cap Asked(r) = {}
C32_ValidPurchaseSucceeds ==
  \A r \in Req :
    ( /\ Done(r) /\ ~StoreError(r) /\ Alone(r)
      /\ ~NumbersInvalid(req[r].numbers)
      /\ ~BuyerInvalid(req[r].buyer)
      /\ adminPassword = Secret /\ req[r].password = Secret
      /\ AllAvailableFor(r) )
    => /\ Success(r)
       /\ \A n \in Asked(r) : IsSoldDoc(variant, store[n])

\* C33: a store step of a purchase changes no ticket whose number is not in
\* its request, and adds or removes none, whatever the request is answered.
C33_UnrequestedUntouched ==
  [][\A r \in Req :
       access'[r] # access[r]
         => /\ DOMAIN store' = DOMAIN store
            /\ \A n \in DOMAIN store \ Asked(r) : store'[n] = store[n]]_vars

\* C33 witness: a purchase has succeeded and sold its ticket, and a ticket
\* it did not ask for is as it was initialized.
C33_Witness ==
  \E r \in Req : \E n \in Pool \ Asked(r) :
    /\ Done(r) /\ Success(r)
    /\ \E k \in Asked(r) \cap Pool : store[k] # Available
    /\ store[n] = Available

\* C34: every purchase request that has arrived is eventually answered, with
\* one response: the response is sent in the step that ends the handler and
\* is never replaced.
Answered(r) == Done(r) /\ resp[r] # NoResp
C34_OneResponse ==
  /\ \A r \in Req : (pc[r] # "idle") ~> Answered(r)
  /\ [][\A r \in Req :
          /\ resp[r] # NoResp => resp'[r] = resp[r]
          /\ resp'[r] # resp[r] => (pc[r] # "done" /\ pc'[r] = "done")
          /\ pc[r] = "done" => pc'[r] = "done"]_vars
  /\ [](\A r \in Req : Done(r) <=> resp[r] # NoResp)

\* C34 witness: one request was answered 500 after a store call threw and
\* another was answered success.
C34_Witness ==
  \E r, q \in Req :
    /\ Answered(r) /\ StoreError(r) /\ access[r] > 0
    /\ Answered(q) /\ Success(q)

\* C36: the updateMany of a reset leaves every ticket that was available as
\* it was, leaves no ticket sold, and a second reset applied to its result
\* changes nothing.
ResetExecutes(r) == kind[r] = "reset" /\ pc[r] = "resetUpdate" /\ pc'[r] = "afterUpdate"
C36_ResetIdempotent ==
  [][\A r \in Req :
       ResetExecutes(r)
         => /\ DOMAIN store' = DOMAIN store
            /\ \A n \in DOMAIN store : ~store[n].sold => store'[n] = store[n]
            /\ \A n \in DOMAIN store' : ~store'[n].sold
            /\ ResetAll(store') = store']_vars

\* C36 witness: two resets ran one after the other; the first cleared a sold
\* ticket, the second found nothing to change, and a ticket that was never
\* sold is still as it was initialized.
C36_Witness ==
  \E r, q \in Req :
    /\ kind[r] = "reset" /\ kind[q] = "reset"
    /\ Done(r) /\ Done(q) /\ q \in prior[r]
    /\ wrote[q] # {} /\ wrote[q] # Pool /\ wrote[r] = {}
    /\ DOMAIN store = Pool /\ \A n \in Pool : store[n] = Available

====
